---- MODULE Spec2Model ----
(***************************************************************************)
(* Model of the two manifest generators of Anime-Dashboard:               *)
(*   tools/generate_manifest.py   (gacha manifest)                        *)
(*   tools/generate_cosmetics.py  (cosmetics manifest)                    *)
(*                                                                         *)
(* A Python str the code looks into is a sequence of one-character        *)
(* strings; a str the code only copies or prints is a TLA+ string.        *)
(* A Python dict is a sequence of [k, v] records in insertion order,      *)
(* which is the order iteration and json.dump follow.                     *)
(***************************************************************************)
EXTENDS Integers, Sequences, FiniteSets, TLC

VARIABLES
    arg,            \* pure-function runs: the filename passed in
    called,         \* pure-function runs: which function has been called
    ret,            \* pure-function runs: the value it returned
    prog,           \* generator runs: which script is running
    pc,             \* generator runs: position in create_*_manifest
    root_kind,      \* what the configured root path is on disk
    listed,         \* entries of the root the outer loop has taken so far
    anime_listing,  \* gacha: entries of the current anime taken so far
    char_listing,   \* gacha: listing of the character directory just scanned
    manifest_data,  \* the manifest being accumulated
    out_file,       \* state of OUTPUT_FILE on disk
    out_opens,      \* number of open(OUTPUT_FILE, 'w') calls
    listdirs,       \* number of os.listdir calls
    printed,        \* console lines, in order
    raised          \* an exception left create_*_manifest

vars == <<arg, called, ret, prog, pc, root_kind, listed, anime_listing,
          char_listing, manifest_data, out_file, out_opens, listdirs, printed, raised>>

fnVars == <<arg, called, ret>>
genVars == <<prog, pc, root_kind, listed, anime_listing, char_listing,
             manifest_data, out_file, out_opens, listdirs, printed, raised>>

(***************************************************************************)
(* Bounds of the model.                                                   *)
(***************************************************************************)
MaxChunks == 3      \* a filename argument is built from at most this many chunks
MaxEntries == 2     \* a directory listing yields at most this many entries

(***************************************************************************)
(* Python str primitives.                                                 *)
(***************************************************************************)
UpperLetters == <<"A", "B", "C", "D", "E", "F", "G", "H", "I", "J", "K", "L", "M",
                  "N", "O", "P", "Q", "R", "S", "T", "U", "V", "W", "X", "Y", "Z">>
LowerLetters == <<"a", "b", "c", "d", "e", "f", "g", "h", "i", "j", "k", "l", "m",
                  "n", "o", "p", "q", "r", "s", "t", "u", "v", "w", "x", "y", "z">>
Digits == <<"0", "1", "2", "3", "4", "5", "6", "7", "8", "9">>

IsUpper(c) == \E i \in 1..Len(UpperLetters) : UpperLetters[i] = c
IsLower(c) == \E i \in 1..Len(LowerLetters) : LowerLetters[i] = c
IsDigit(c) == \E i \in 1..Len(Digits) : Digits[i] = c

LowerChar(c) ==
    IF IsUpper(c)
    THEN LowerLetters[CHOOSE i \in 1..Len(UpperLetters) : UpperLetters[i] = c]
    ELSE c
UpperChar(c) ==
    IF IsLower(c)
    THEN UpperLetters[CHOOSE i \in 1..Len(LowerLetters) : LowerLetters[i] = c]
    ELSE c
DigitValue(c) == (CHOOSE i \in 1..Len(Digits) : Digits[i] = c) - 1

\* str.lower() / str.upper()
lower(s) == [i \in 1..Len(s) |-> LowerChar(s[i])]

\* str.capitalize(): first character upper-cased, the rest lower-cased
capitalize(s) == [i \in 1..Len(s) |-> IF i = 1 THEN UpperChar(s[i]) ELSE LowerChar(s[i])]

\* str.endswith(suffix)
endswith(s, suffix) ==
    /\ Len(suffix) <= Len(s)
    /\ SubSeq(s, Len(s) - Len(suffix) + 1, Len(s)) = suffix

\* str.endswith(tuple of suffixes)
endswith_any(s, suffixes) == \E i \in 1..Len(suffixes) : endswith(s, suffixes[i])

\* sub in s
contains(s, sub) ==
    \E i \in 1..(Len(s) - Len(sub) + 1) : SubSeq(s, i, i + Len(sub) - 1) = sub

\* str.replace(old, new) for single characters
replace(s, old, new) == [i \in 1..Len(s) |-> IF s[i] = old THEN new ELSE s[i]]

\* str.rfind(c) for a single character, 1-based, 0 when absent
rfind(s, c) ==
    IF \E i \in 1..Len(s) : s[i] = c
    THEN CHOOSE i \in 1..Len(s) : s[i] = c /\ \A j \in (i + 1)..Len(s) : s[j] # c
    ELSE 0

\* str.find(c) for a single character, 1-based, 0 when absent
find(s, c) ==
    IF \E i \in 1..Len(s) : s[i] = c
    THEN CHOOSE i \in 1..Len(s) : s[i] = c /\ \A j \in 1..(i - 1) : s[j] # c
    ELSE 0

\* str.split(sep) for a single-character separator: every separator cuts,
\* so adjacent, leading and trailing separators give empty tokens.
RECURSIVE split(_, _)
split(s, sep) ==
    IF find(s, sep) = 0
    THEN <<s>>
    ELSE <<SubSeq(s, 1, find(s, sep) - 1)>>
             \o split(SubSeq(s, find(s, sep) + 1, Len(s)), sep)

\* sep.join(words) for a single-character separator
RECURSIVE join(_, _)
join(sep, words) ==
    IF words = <<>> THEN <<>>
    ELSE IF Len(words) = 1 THEN words[1]
    ELSE words[1] \o <<sep>> \o join(sep, Tail(words))

\* int(digits)
RECURSIVE int(_)
int(ds) ==
    IF ds = <<>> THEN 0
    ELSE int(SubSeq(ds, 1, Len(ds) - 1)) * 10 + DigitValue(ds[Len(ds)])

\* os.path.splitext (genericpath._splitext): the extension starts at the
\* last dot after the last separator, unless only dots precede that dot.
splitext(p) ==
    LET sepIndex == rfind(p, "/")
        dotIndex == rfind(p, ".")
    IN  IF /\ dotIndex > sepIndex
           /\ \E k \in (sepIndex + 1)..(dotIndex - 1) : p[k] # "."
        THEN <<SubSeq(p, 1, dotIndex - 1), SubSeq(p, dotIndex, Len(p))>>
        ELSE <<p, <<>> >>

\* os.path.join(a, b) for a relative b
path_join(a, b) == a \o <<"/">> \o b

\* dict.get(key, default) on an insertion-ordered dict
DictHas(d, key) == \E i \in 1..Len(d) : d[i].k = key
DictGet(d, key, default) ==
    IF DictHas(d, key) THEN d[CHOOSE i \in 1..Len(d) : d[i].k = key].v ELSE default
\* d[key] = value: a new key goes last, an existing key keeps its place
DictSet(d, key, value) ==
    IF DictHas(d, key)
    THEN [i \in 1..Len(d) |-> IF d[i].k = key THEN [k |-> key, v |-> value] ELSE d[i]]
    ELSE Append(d, [k |-> key, v |-> value])
DictKeys(d) == [i \in 1..Len(d) |-> d[i].k]

\* Python values of mixed type (int | str)
PyInt(n) == [kind |-> "int", num |-> n, str |-> ""]
PyStr(s) == [kind |-> "str", num |-> 0, str |-> s]

(***************************************************************************)
(* generate_manifest.py: configuration and get_rarity_from_filename.      *)
(***************************************************************************)
GACHA_ROOT_DIR == <<"i", "m", "a", "g", "e", "s", "/", "g", "a", "c", "h", "a">>
IMAGE_EXTENSIONS == << <<".", "j", "p", "g">>, <<".", "j", "p", "e", "g">>,
                       <<".", "p", "n", "g">>, <<".", "w", "e", "b", "p">>,
                       <<".", "g", "i", "f">> >>

\* re.search(r'(\d+)', filename): the leftmost position where a digit
\* stands, extended greedily; <<0, 0>> when there is no match.
RECURSIVE digit_run_end(_, _)
digit_run_end(s, i) ==
    IF i < Len(s) /\ IsDigit(s[i + 1]) THEN digit_run_end(s, i + 1) ELSE i
RECURSIVE search_digits_from(_, _)
search_digits_from(s, i) ==
    IF i > Len(s) THEN <<0, 0>>
    ELSE IF IsDigit(s[i]) THEN <<i, digit_run_end(s, i)>>
    ELSE search_digits_from(s, i + 1)
search_digits(s) == search_digits_from(s, 1)

\* get_rarity_from_filename with the thresholds compared by < instead of <=
get_rarity_strict_thresholds(filename) ==
    LET match == search_digits(filename)
        num == int(SubSeq(filename, match[1], match[2]))
    IN  IF match[1] = 0 THEN PyInt(1)
        ELSE IF num < 2 THEN PyInt(1)
        ELSE IF num < 4 THEN PyInt(2)
        ELSE IF num < 6 THEN PyInt(3)
        ELSE IF num < 8 THEN PyInt(4)
        ELSE IF num < 10 THEN PyInt(5)
        ELSE PyStr("Prismatic")

get_rarity_from_filename(filename) ==
    LET match == search_digits(filename)
        num == int(SubSeq(filename, match[1], match[2]))
    IN  IF match[1] = 0 THEN PyInt(1)
        ELSE IF num <= 2 THEN PyInt(1)
        ELSE IF num <= 4 THEN PyInt(2)
        ELSE IF num <= 6 THEN PyInt(3)
        ELSE IF num <= 8 THEN PyInt(4)
        ELSE IF num <= 10 THEN PyInt(5)
        ELSE PyStr("Prismatic")

(***************************************************************************)
(* generate_cosmetics.py: configuration, format_name, get_cosmetic_details*)
(***************************************************************************)
COSMETICS_ROOT_DIR == <<"c", "o", "s", "m", "e", "t", "i", "c", "s", "/",
                        "p", "a", "c", "k", "s">>
str_animated == <<"a", "n", "i", "m", "a", "t", "e", "d">>
str_border == <<"b", "o", "r", "d", "e", "r">>
str_icon == <<"i", "c", "o", "n">>
str_theme == <<"t", "h", "e", "m", "e">>
str_sakura_pack == <<"s", "a", "k", "u", "r", "a", "_", "p", "a", "c", "k">>
str_neon_pack == <<"n", "e", "o", "n", "_", "p", "a", "c", "k">>

PACK_COSTS == << [k |-> str_sakura_pack, v |-> 750],
                 [k |-> str_neon_pack, v |-> 600] >>
RARITY_RULES == << [k |-> str_border, v |-> "common"],
                   [k |-> str_icon, v |-> "common"],
                   [k |-> str_animated, v |-> "rare"],
                   [k |-> str_theme, v |-> "epic"] >>

\* format_name splitting on runs of '-' (empty tokens dropped)
RECURSIVE drop_empty(_)
drop_empty(words) ==
    IF words = <<>> THEN <<>>
    ELSE IF words[1] = <<>> THEN drop_empty(Tail(words))
    ELSE <<words[1]>> \o drop_empty(Tail(words))
format_name_skip_empty(kebab_case_str) ==
    join(" ", [i \in 1..Len(drop_empty(split(kebab_case_str, "-"))) |->
                   capitalize(drop_empty(split(kebab_case_str, "-"))[i])])

format_name(kebab_case_str) ==
    join(" ", [i \in 1..Len(split(kebab_case_str, "-")) |->
                   capitalize(split(kebab_case_str, "-")[i])])

\* get_cosmetic_details taking the rarity from the type alone
get_cosmetic_details_type_only(filename) ==
    LET base_name == splitext(filename)[1]
        item_type == split(base_name, "-")[1]
    IN  [id |-> base_name,
         name |-> format_name(base_name),
         type |-> item_type,
         rarity |-> DictGet(RARITY_RULES, item_type, "common")]

\* get_cosmetic_details cutting the name at its first dot
get_cosmetic_details_first_dot(filename) ==
    LET base_name == split(filename, ".")[1]
        item_type == split(base_name, "-")[1]
        rarity0 == DictGet(RARITY_RULES, item_type, "common")
        rarity == IF contains(base_name, str_animated)
                  THEN DictGet(RARITY_RULES, str_animated, "rare")
                  ELSE rarity0
    IN  [id |-> base_name,
         name |-> format_name(base_name),
         type |-> item_type,
         rarity |-> rarity]

get_cosmetic_details(filename) ==
    LET base_name == splitext(filename)[1]
        item_type == split(base_name, "-")[1]
        rarity0 == DictGet(RARITY_RULES, item_type, "common")
        rarity == IF contains(base_name, str_animated)
                  THEN DictGet(RARITY_RULES, str_animated, "rare")
                  ELSE rarity0
    IN  [id |-> base_name,
         name |-> format_name(base_name),
         type |-> item_type,
         rarity |-> rarity]

(***************************************************************************)
(* Pure-function runs: one of the three functions is called on a filename *)
(* drawn from a bounded set of names.                                     *)
(***************************************************************************)
RarityChunks ==
    { <<Digits[i]>> : i \in 1..Len(Digits) }
        \cup { <<"1", "1">>, <<"a">>, <<"-">>, <<".", "p", "n", "g">> }
CosmeticChunks ==
    { str_animated, <<"a", "n", "i", "m">>, <<"a", "t", "e", "d">>, str_theme,
      str_border, str_icon, <<"x">>, <<"a", "B">>, <<"-">>, <<".">>, <<" ">>,
      <<"_">>, <<".", "p", "n", "g">> }

\* every concatenation of at most n chunks of the pool
RECURSIVE Concats(_, _)
Concats(pool, n) ==
    IF n = 0 THEN { <<>> }
    ELSE LET shorter == Concats(pool, n - 1)
         IN  shorter \cup { p \o c : p \in shorter, c \in pool }

FileNames(n) == Concats(RarityChunks, n) \cup Concats(CosmeticChunks, n)

GenIdle ==
    /\ prog = "none"
    /\ pc = "idle"
    /\ root_kind = "missing"
    /\ listed = <<>>
    /\ anime_listing = <<>>
    /\ char_listing = <<>>
    /\ manifest_data = <<>>
    /\ out_file = "absent"
    /\ out_opens = 0
    /\ listdirs = 0
    /\ printed = <<>>
    /\ raised = FALSE

InitFn ==
    /\ arg \in FileNames(MaxChunks)
    /\ called = "none"
    /\ ret = <<>>
    /\ GenIdle

Call_get_rarity_from_filename ==
    /\ called = "none"
    /\ called' = "get_rarity_from_filename"
    /\ ret' = get_rarity_from_filename(arg)
    /\ UNCHANGED <<arg, genVars>>

Call_format_name ==
    /\ called = "none"
    /\ called' = "format_name"
    /\ ret' = format_name(arg)
    /\ UNCHANGED <<arg, genVars>>

Call_get_cosmetic_details ==
    /\ called = "none"
    /\ called' = "get_cosmetic_details"
    /\ ret' = get_cosmetic_details(arg)
    /\ UNCHANGED <<arg, genVars>>

NextFn ==
    \/ Call_get_rarity_from_filename
    \/ Call_format_name
    \/ Call_get_cosmetic_details

SpecFn == InitFn /\ [][NextFn]_vars

(***************************************************************************)
(* Generator runs.  The file system is the input: each directory listing  *)
(* is a sequence of entries with distinct names, in the order os.listdir  *)
(* yields them.  An entry is [name, kind, list]; list is the listing of a *)
(* directory entry.  The root's entries are drawn one loop iteration at a *)
(* time; `listed` keeps the ones taken so far.  The gacha tree is one     *)
(* level deeper: the entries of an anime directory are drawn one middle-  *)
(* loop iteration at a time (anime_listing keeps the ones taken so far)   *)
(* and the listing of a character directory is drawn whole when the       *)
(* middle loop enters it (char_listing).                                  *)
(***************************************************************************)
FileEntry(n) == [name |-> n, kind |-> "file", list |-> <<>>]
DirEntry(n, l) == [name |-> n, kind |-> "dir", list |-> l]
Names(listing) == [i \in 1..Len(listing) |-> listing[i].name]
HasName(listing, n) == \E i \in 1..Len(listing) : listing[i].name = n

\* every listing of at most n entries of the pool, no name twice
RECURSIVE ListingsOf(_, _)
ListingsOf(pool, n) ==
    IF n = 0 THEN { <<>> }
    ELSE ListingsOf(pool, n - 1) \cup
         UNION { { Append(l, e) : e \in { x \in pool : ~HasName(l, x.name) } }
                 : l \in { x \in ListingsOf(pool, n - 1) : Len(x) = n - 1 } }

\* what a character directory may hold
GachaLeafPool ==
    { FileEntry(<<"a", "7", ".", "P", "N", "G">>),
      FileEntry(<<"n", ".", "t", "x", "t">>),
      DirEntry(<<"d", ".", "g", "i", "f">>, <<>>) }
GachaLeafListings == ListingsOf(GachaLeafPool, MaxEntries)
\* what an anime directory may hold
GachaCharPool ==
    { DirEntry(<<"R">>, <<>>), DirEntry(<<"K">>, <<>>),
      FileEntry(<<"t", ".", "p", "n", "g">>) }
\* what the gacha root may hold
GachaRootPool ==
    { DirEntry(<<"E">>, <<>>), DirEntry(<<"A">>, <<>>), FileEntry(<<"r", ".", "m", "d">>) }

\* what a pack directory may hold
CosLeafPool ==
    { FileEntry(<<"t", "h", "e", "m", "e", "-", "a", ".", "p", "n", "g">>),
      FileEntry(<<"i", "c", "o", "n", "-", "b", ".", "p", "n", "g">>),
      DirEntry(<<"s", "u", "b">>, <<>>) }
CosLeafListings == ListingsOf(CosLeafPool, MaxEntries)
\* what the cosmetics root may hold
CosRootPool ==
    { DirEntry(n, l) : n \in { str_sakura_pack, <<"m", "y", "_", "p">> },
                       l \in CosLeafListings }
        \cup { FileEntry(<<"x", ".", "p", "n", "g">>) }

FnIdle ==
    /\ arg = <<>>
    /\ called = "none"
    /\ ret = <<>>

Init ==
    /\ FnIdle
    /\ prog \in {"cosmetics", "gacha"}
    /\ pc = "start"
    /\ root_kind \in {"missing", "file", "dir"}
    /\ listed = <<>>
    /\ anime_listing = <<>>
    /\ char_listing = <<>>
    /\ manifest_data = <<>>
    /\ out_file = [state |-> "absent", data |-> <<>>]
    /\ out_opens = 0
    /\ listdirs = 0
    /\ printed = <<>>
    /\ raised = FALSE

\* the root check passing whatever the root is
isdir_root_always == TRUE

\* os.path.isdir(root)
isdir_root == root_kind = "dir"

(***************************************************************************)
(* create_cosmetics_manifest                                              *)
(***************************************************************************)
\* the pack's items collected by inserting each at the front
RECURSIVE cos_pack_items_prepend(_)
cos_pack_items_prepend(listing) ==
    IF listing = <<>> THEN <<>>
    ELSE cos_pack_items_prepend(Tail(listing)) \o
         (IF listing[1].kind = "file"
          THEN <<get_cosmetic_details(listing[1].name)>>
          ELSE <<>>)

\* lines 59-64: the items of one pack, in listing order, plain files only
RECURSIVE cos_pack_items(_)
cos_pack_items(listing) ==
    IF listing = <<>> THEN <<>>
    ELSE (IF listing[1].kind = "file"
          THEN <<get_cosmetic_details(listing[1].name)>>
          ELSE <<>>) \o cos_pack_items(Tail(listing))

\* the pack recorded without the emptiness test
cos_add_pack_always(manifest, pack_id, pack_items) ==
    [packs |-> DictSet(manifest.packs, pack_id,
                 [name |-> format_name(replace(pack_id, "_", "-")),
                  cost |-> DictGet(PACK_COSTS, pack_id, 1000),
                  items |-> pack_items])]

\* lines 66-71: a pack is recorded only when it has items
cos_add_pack(manifest, pack_id, pack_items) ==
    IF pack_items # <<>>
    THEN [packs |-> DictSet(manifest.packs, pack_id,
                      [name |-> format_name(replace(pack_id, "_", "-")),
                       cost |-> DictGet(PACK_COSTS, pack_id, 1000),
                       items |-> pack_items])]
    ELSE manifest

\* lines 46-51: banner, empty manifest, root check
CosStart ==
    /\ prog = "cosmetics" /\ pc = "start"
    /\ manifest_data' = [packs |-> <<>>]
    /\ IF ~isdir_root
       THEN /\ printed' = printed \o <<"scan", "not_found">>
            /\ pc' = "done"
            /\ listdirs' = listdirs
       ELSE /\ printed' = Append(printed, "scan")
            /\ pc' = "walk"
            /\ listdirs' = listdirs + 1
    /\ UNCHANGED <<fnVars, prog, root_kind, listed, anime_listing,
                   char_listing, out_file, out_opens, raised>>

\* lines 54-71: one iteration of the loop over the root's listing
CosNextPack ==
    /\ prog = "cosmetics" /\ pc = "walk"
    /\ Len(listed) < MaxEntries
    /\ \E e \in CosRootPool :
          /\ ~HasName(listed, e.name)
          /\ listed' = Append(listed, e)
          /\ IF e.kind = "dir"
             THEN /\ printed' = Append(printed, "found_pack")
                  /\ listdirs' = listdirs + 1
                  /\ manifest_data' =
                         cos_add_pack(manifest_data, e.name, cos_pack_items(e.list))
             ELSE UNCHANGED <<printed, listdirs, manifest_data>>
    /\ UNCHANGED <<fnVars, prog, pc, root_kind, anime_listing, char_listing,
                   out_file, out_opens, raised>>

\* the root's listing is exhausted
CosEndWalk ==
    /\ prog = "cosmetics" /\ pc = "walk"
    /\ pc' = "write"
    /\ UNCHANGED <<fnVars, prog, root_kind, listed, anime_listing,
                   char_listing, manifest_data, out_file, out_opens, listdirs, printed, raised>>

\* the write without the except clause: a failure leaves the function
CosWrite_uncaught ==
    /\ prog = "cosmetics" /\ pc = "write"
    /\ out_opens' = out_opens + 1
    /\ \E outcome \in {"ok", "open_fails", "dump_fails"} :
          /\ out_file' = CASE outcome = "ok" -> [state |-> "written", data |-> manifest_data]
                           [] outcome = "open_fails" -> out_file
                           [] outcome = "dump_fails" -> [state |-> "partial", data |-> <<>>]
          /\ printed' = IF outcome = "ok"
                        THEN printed \o <<"success", "found_count">>
                        ELSE printed
          /\ raised' = (outcome # "ok")
    /\ pc' = "done"
    /\ UNCHANGED <<fnVars, prog, root_kind, listed, anime_listing,
                   char_listing, manifest_data, listdirs>>

\* lines 73-80: open, dump, banner; any Exception is caught and reported
CosWrite ==
    /\ prog = "cosmetics" /\ pc = "write"
    /\ out_opens' = out_opens + 1
    /\ \E outcome \in {"ok", "open_fails", "dump_fails"} :
          /\ out_file' = CASE outcome = "ok" -> [state |-> "written", data |-> manifest_data]
                           [] outcome = "open_fails" -> out_file
                           [] outcome = "dump_fails" -> [state |-> "partial", data |-> <<>>]
          /\ printed' = IF outcome = "ok"
                        THEN printed \o <<"success", "found_count">>
                        ELSE Append(printed, "write_error")
    /\ raised' = FALSE
    /\ pc' = "done"
    /\ UNCHANGED <<fnVars, prog, root_kind, listed, anime_listing,
                   char_listing, manifest_data, listdirs>>

(***************************************************************************)
(* create_gacha_manifest                                                  *)
(***************************************************************************)
\* lines 58-66: the variants of one character directory, in listing order;
\* an entry is taken by its name alone
RECURSIVE gacha_variant_list(_, _)
gacha_variant_list(character_path, listing) ==
    IF listing = <<>> THEN <<>>
    ELSE (IF endswith_any(lower(listing[1].name), IMAGE_EXTENSIONS)
          THEN << [path |-> replace(path_join(character_path, listing[1].name), "\\", "/"),
                   rarity |-> get_rarity_from_filename(listing[1].name)] >>
          ELSE <<>>) \o gacha_variant_list(character_path, Tail(listing))

\* the character recorded without the emptiness test
gacha_add_character_always(manifest, anime_name, character_name, variant_list) ==
    DictSet(manifest, anime_name,
            DictSet(DictGet(manifest, anime_name, <<>>), character_name, variant_list))

\* lines 68-69: a character is recorded only when it has variants
gacha_add_character(manifest, anime_name, character_name, variant_list) ==
    IF variant_list # <<>>
    THEN DictSet(manifest, anime_name,
                 DictSet(DictGet(manifest, anime_name, <<>>), character_name, variant_list))
    ELSE manifest

\* lines 39-44: banner, empty manifest, root check
GachaStart ==
    /\ prog = "gacha" /\ pc = "start"
    /\ manifest_data' = <<>>
    /\ IF ~isdir_root
       THEN /\ printed' = printed \o <<"scan", "not_found">>
            /\ pc' = "done"
            /\ listdirs' = listdirs
       ELSE /\ printed' = Append(printed, "scan")
            /\ pc' = "walk"
            /\ listdirs' = listdirs + 1
    /\ UNCHANGED <<fnVars, prog, root_kind, listed, anime_listing,
                   char_listing, out_file, out_opens, raised>>

\* lines 47-52: the outer loop takes the next entry of the root
GachaNextAnime ==
    /\ prog = "gacha" /\ pc = "walk"
    /\ Len(listed) < MaxEntries
    /\ \E e \in GachaRootPool :
          /\ ~HasName(listed, e.name)
          /\ listed' = Append(listed, e)
          /\ IF e.kind = "dir"
             THEN /\ manifest_data' = DictSet(manifest_data, e.name, <<>>)
                  /\ listdirs' = listdirs + 1
                  /\ anime_listing' = <<>>
                  /\ pc' = "chars"
             ELSE UNCHANGED <<manifest_data, listdirs, anime_listing, pc>>
    /\ UNCHANGED <<fnVars, prog, root_kind, char_listing, out_file,
                   out_opens, printed, raised>>

\* lines 52-69: the middle loop takes the next entry of the current anime
GachaNextCharacter ==
    /\ prog = "gacha" /\ pc = "chars"
    /\ Len(anime_listing) < MaxEntries
    /\ \E c \in GachaCharPool :
          /\ ~HasName(anime_listing, c.name)
          /\ anime_listing' = Append(anime_listing, c)
          /\ LET anime_name == listed[Len(listed)].name
                 character_path ==
                     path_join(path_join(GACHA_ROOT_DIR, anime_name), c.name)
             IN  IF c.kind = "dir"
                 THEN \E l \in GachaLeafListings :
                         /\ char_listing' = l
                         /\ listdirs' = listdirs + 1
                         /\ manifest_data' =
                                gacha_add_character(manifest_data, anime_name, c.name,
                                    gacha_variant_list(character_path, l))
                 ELSE /\ char_listing' = <<>>
                      /\ UNCHANGED <<listdirs, manifest_data>>
    /\ UNCHANGED <<fnVars, prog, pc, root_kind, listed, out_file,
                   out_opens, printed, raised>>

\* the current anime's listing is exhausted; the loop variables are dead
GachaEndCharacters ==
    /\ prog = "gacha" /\ pc = "chars"
    /\ pc' = "walk"
    /\ anime_listing' = <<>>
    /\ char_listing' = <<>>
    /\ UNCHANGED <<fnVars, prog, root_kind, listed, manifest_data,
                   out_file, out_opens, listdirs, printed, raised>>

\* the root's listing is exhausted
GachaEndWalk ==
    /\ prog = "gacha" /\ pc = "walk"
    /\ pc' = "write"
    /\ UNCHANGED <<fnVars, prog, root_kind, listed, anime_listing,
                   char_listing, manifest_data, out_file, out_opens, listdirs, printed, raised>>

\* lines 71-78: open, dump, banner; any Exception is caught and reported
GachaWrite ==
    /\ prog = "gacha" /\ pc = "write"
    /\ out_opens' = out_opens + 1
    /\ \E outcome \in {"ok", "open_fails", "dump_fails"} :
          /\ out_file' = CASE outcome = "ok" -> [state |-> "written", data |-> manifest_data]
                           [] outcome = "open_fails" -> out_file
                           [] outcome = "dump_fails" -> [state |-> "partial", data |-> <<>>]
          /\ printed' = IF outcome = "ok"
                        THEN printed \o <<"success", "found_count">>
                        ELSE Append(printed, "write_error")
    /\ raised' = FALSE
    /\ pc' = "done"
    /\ UNCHANGED <<fnVars, prog, root_kind, listed, anime_listing,
                   char_listing, manifest_data, listdirs>>

Next ==
    \/ CosStart
    \/ CosNextPack
    \/ CosEndWalk
    \/ CosWrite
    \/ GachaStart
    \/ GachaNextAnime
    \/ GachaNextCharacter
    \/ GachaEndCharacters
    \/ GachaEndWalk
    \/ GachaWrite

Spec == Init /\ [][Next]_vars

(***************************************************************************)
(* Properties of the pure functions (checked under SpecFn).               *)
(***************************************************************************)
HasDigit(s) == \E i \in 1..Len(s) : IsDigit(s[i])
\* the bounds <<i, j>> of the first maximal run of digits of s
FirstDigitRun(s) ==
    CHOOSE r \in (1..Len(s)) \X (1..Len(s)) :
        /\ r[1] <= r[2]
        /\ \A k \in r[1]..r[2] : IsDigit(s[k])
        /\ \A k \in 1..(r[1] - 1) : ~IsDigit(s[k])
        /\ (r[2] = Len(s) \/ ~IsDigit(s[r[2] + 1]))
RECURSIVE Pow10(_)
Pow10(n) == IF n = 0 THEN 1 ELSE 10 * Pow10(n - 1)
RECURSIVE SumDigits(_, _, _)
SumDigits(s, i, j) ==
    IF i > j THEN 0 ELSE DigitValue(s[i]) * Pow10(j - i) + SumDigits(s, i + 1, j)
FirstNumber(s) == SumDigits(s, FirstDigitRun(s)[1], FirstDigitRun(s)[2])
TierOf(n) ==
    CASE n <= 2 -> PyInt(1)
      [] n > 2 /\ n <= 4 -> PyInt(2)
      [] n > 4 /\ n <= 6 -> PyInt(3)
      [] n > 6 /\ n <= 8 -> PyInt(4)
      [] n > 8 /\ n <= 10 -> PyInt(5)
      [] n > 10 -> PyStr("Prismatic")
RarityValues == { PyInt(n) : n \in 1..5 } \cup { PyStr("Prismatic") }

\* C5: get_rarity_from_filename maps the first run of decimal digits of the
\* filename, read as the integer n, to 1 (n<=2), 2 (n<=4), 3 (n<=6), 4 (n<=8),
\* 5 (n<=10) or "Prismatic" (n>10); a name without a digit gives 1; the
\* result is one of the six tiers and depends on nothing after the first run.
C5_RarityFromFirstDigitRun ==
    called = "get_rarity_from_filename" =>
        /\ ret \in RarityValues
        /\ ~HasDigit(arg) => ret = PyInt(1)
        /\ HasDigit(arg) =>
              /\ ret = TierOf(FirstNumber(arg))
              /\ ret = get_rarity_from_filename(SubSeq(arg, 1, FirstDigitRun(arg)[2]))

\* a name with two digit runs, the first in tier 4 and a later one above 10
C5_Witness ==
    /\ called = "get_rarity_from_filename"
    /\ HasDigit(arg)
    /\ ret = PyInt(4)
    /\ LET rest == SubSeq(arg, FirstDigitRun(arg)[2] + 1, Len(arg))
       IN  HasDigit(rest) /\ FirstNumber(rest) > 10

TokenBeforeFirstHyphen(s) ==
    IF \E i \in 1..Len(s) : s[i] = "-"
    THEN SubSeq(s, 1, (CHOOSE i \in 1..Len(s) :
                          s[i] = "-" /\ \A j \in 1..(i - 1) : s[j] # "-") - 1)
    ELSE s
TableRarity(type) ==
    CASE type = <<"b", "o", "r", "d", "e", "r">> -> "common"
      [] type = <<"i", "c", "o", "n">> -> "common"
      [] type = <<"a", "n", "i", "m", "a", "t", "e", "d">> -> "rare"
      [] type = <<"t", "h", "e", "m", "e">> -> "epic"
      [] OTHER -> "common"
HasAnimated(s) ==
    \E i \in 1..Len(s) :
        /\ i + 7 <= Len(s)
        /\ <<s[i], s[i + 1], s[i + 2], s[i + 3], s[i + 4], s[i + 5], s[i + 6], s[i + 7]>>
               = <<"a", "n", "i", "m", "a", "t", "e", "d">>

\* C6: get_cosmetic_details sets type to the token before the first '-' of
\* the base name; rarity is 'rare' whenever the base name contains
\* 'animated' anywhere, otherwise the table's value for the type
\* (border, icon -> common, animated -> rare, theme -> epic), 'common' for
\* a type the table does not have.
C6_TypeAndRarity ==
    called = "get_cosmetic_details" =>
        /\ ret.type = TokenBeforeFirstHyphen(ret.id)
        /\ HasAnimated(ret.id) => ret.rarity = "rare"
        /\ ~HasAnimated(ret.id) => ret.rarity = TableRarity(ret.type)

\* a theme item (table value epic) whose name holds 'animated' later on
C6_Witness ==
    /\ called = "get_cosmetic_details"
    /\ ret.type = <<"t", "h", "e", "m", "e">>
    /\ HasAnimated(ret.id)
    /\ ret.rarity = "rare"

\* the character format_name puts at position i of its result
FormattedChar(s, i) ==
    IF s[i] = "-" THEN " "
    ELSE IF i = 1 \/ s[i - 1] = "-" THEN UpperChar(s[i])
    ELSE LowerChar(s[i])
AdjacentAt(s, i, c) == i < Len(s) /\ s[i] = c /\ s[i + 1] = c

\* C7 as stated: format_name gives the tokens capitalized and joined by
\* single spaces, and no two adjacent spaces of the result come from the
\* separators; the empty string gives the empty string.
C7_NoAdjacentSpacesFromSeparators ==
    called = "format_name" =>
        /\ Len(ret) = Len(arg)
        /\ \A i \in 1..Len(arg) : ret[i] = FormattedChar(arg, i)
        /\ \A i \in 1..Len(arg) :
              AdjacentAt(arg, i, "-") => ~AdjacentAt(ret, i, " ")
        /\ arg = <<>> => ret = <<>>

\* C7 amended: format_name turns every '-' into exactly one space and
\* capitalizes each token between them (first character upper-cased, the
\* rest lower-cased), empty tokens included, so two adjacent spaces come
\* from the separators exactly where two '-' are adjacent; nothing but '-'
\* starts a new token; the empty string gives the empty string.
C7_OneSpacePerHyphen ==
    called = "format_name" =>
        /\ Len(ret) = Len(arg)
        /\ \A i \in 1..Len(arg) : ret[i] = FormattedChar(arg, i)
        /\ \A i \in 1..Len(arg) :
              AdjacentAt(arg, i, "-") => AdjacentAt(ret, i, " ")
        /\ \A i \in 1..Len(arg) :
              AdjacentAt(ret, i, " ") =>
                  arg[i] \in {"-", " "} /\ arg[i + 1] \in {"-", " "}
        /\ arg = <<>> => ret = <<>>

\* a name with two adjacent '-' formatted to two adjacent spaces
C7_Witness ==
    /\ called = "format_name"
    /\ \E i \in 1..Len(arg) :
          /\ AdjacentAt(arg, i, "-")
          /\ AdjacentAt(ret, i, " ")
    /\ \E i \in 1..Len(arg) : IsLower(arg[i])

\* the extension of a filename: from its last dot on, unless nothing but
\* dots stands before that dot
ExtensionOf(f) ==
    IF \E d \in 1..Len(f) :
          /\ f[d] = "."
          /\ \A j \in (d + 1)..Len(f) : f[j] # "."
          /\ \E j \in 1..(d - 1) : f[j] # "."
    THEN SubSeq(f, CHOOSE d \in 1..Len(f) :
                      f[d] = "." /\ \A j \in (d + 1)..Len(f) : f[j] # ".", Len(f))
    ELSE <<>>

\* C8: the id get_cosmetic_details gives is the filename with its extension
\* removed, and the display name is format_name of that id.
C8_IdIsNameWithoutExtension ==
    called = "get_cosmetic_details" =>
        /\ ret.id \o ExtensionOf(arg) = arg
        /\ ret.name = format_name(ret.id)

\* a name with two dots: only the last extension is removed
C8_Witness ==
    /\ called = "get_cosmetic_details"
    /\ ExtensionOf(arg) # <<>>
    /\ \E i \in 1..Len(ret.id) : i > 1 /\ ret.id[i] = "."
    /\ ret.id # arg

(***************************************************************************)
(* Properties of the generators (checked under Spec).                     *)
(***************************************************************************)
Running == prog \in {"cosmetics", "gacha"} /\ pc # "start"
Written == out_file.state = "written"
\* the manifest in memory and, once written, the manifest in the file
ManifestViews == {manifest_data} \cup (IF Written THEN {out_file.data} ELSE {})
IndexOf(seq, x) == CHOOSE i \in 1..Len(seq) : seq[i] = x
InSeq(seq, x) == \E i \in 1..Len(seq) : seq[i] = x
\* the members of seq are members of order and stand in order's order
FollowsOrder(seq, order) ==
    /\ \A i \in 1..Len(seq) : InSeq(order, seq[i])
    /\ \A i, j \in 1..Len(seq) : i < j => IndexOf(order, seq[i]) < IndexOf(order, seq[j])
FilesOf(listing) == { i \in 1..Len(listing) : listing[i].kind = "file" }
NameWithoutExtension(n) == SubSeq(n, 1, Len(n) - Len(ExtensionOf(n)))
IsImageName(n) ==
    \E ext \in { <<".", "j", "p", "g">>, <<".", "j", "p", "e", "g">>, <<".", "p", "n", "g">>,
                 <<".", "w", "e", "b", "p">>, <<".", "g", "i", "f">> } :
        /\ Len(n) >= Len(ext)
        /\ \A k \in 1..Len(ext) : LowerChar(n[Len(n) - Len(ext) + k]) = ext[k]
\* gacha: the character directory the middle loop has just scanned
JustScanned ==
    /\ prog = "gacha" /\ pc = "chars"
    /\ anime_listing # <<>>
    /\ anime_listing[Len(anime_listing)].kind = "dir"
CurrentAnime == listed[Len(listed)].name
CurrentCharacter == anime_listing[Len(anime_listing)].name
CurrentVariants(m) == DictGet(DictGet(m, CurrentAnime, <<>>), CurrentCharacter, <<>>)
VariantPath(file_name) ==
    <<"i", "m", "a", "g", "e", "s", "/", "g", "a", "c", "h", "a", "/">>
        \o CurrentAnime \o <<"/">> \o CurrentCharacter \o <<"/">> \o file_name
Paths(variants) == [i \in 1..Len(variants) |-> variants[i].path]

\* C1: when the configured root does not exist, either generator reports
\* the missing directory and ends without opening or writing the output
\* file and without listing any directory.
C1_MissingRootAborts ==
    (Running /\ root_kind = "missing") =>
        /\ pc = "done"
        /\ printed = <<"scan", "not_found">>
        /\ out_opens = 0
        /\ out_file.state = "absent"
        /\ listdirs = 0
        /\ listed = <<>>
        /\ ~raised

\* the gacha generator has ended on a missing root
C1_Witness ==
    /\ prog = "gacha" /\ pc = "done"
    /\ root_kind = "missing"
    /\ printed = <<"scan", "not_found">>

\* C2: a pack id is a key of the manifest's packs iff it is a directory of
\* the root holding at least one plain file; nested directories are no
\* items, so every pack of the manifest has at least one item.
C2_PackIffHasPlainFile ==
    (Running /\ prog = "cosmetics") =>
        \A m \in ManifestViews :
            /\ \A i \in 1..Len(listed) :
                  DictHas(m.packs, listed[i].name)
                      <=> (listed[i].kind = "dir" /\ FilesOf(listed[i].list) # {})
            /\ \A k \in 1..Len(m.packs) :
                  /\ HasName(listed, m.packs[k].k)
                  /\ Len(m.packs[k].v.items) >= 1
                  /\ Len(m.packs[k].v.items) =
                         Cardinality(FilesOf(listed[IndexOf(Names(listed), m.packs[k].k)].list))

\* written manifest: one pack without files left out, one pack whose nested
\* directory is not among its items
C2_Witness ==
    /\ prog = "cosmetics" /\ pc = "done" /\ Written
    /\ \E i, j \in 1..Len(listed) :
          /\ listed[i].kind = "dir" /\ FilesOf(listed[i].list) = {}
          /\ ~DictHas(out_file.data.packs, listed[i].name)
          /\ listed[j].kind = "dir"
          /\ \E x \in 1..Len(listed[j].list) : listed[j].list[x].kind = "dir"
          /\ DictHas(out_file.data.packs, listed[j].name)
          /\ Len(DictGet(out_file.data.packs, listed[j].name, <<>>).items) = 1

\* C3: every anime directory of the root is a key of the gacha manifest,
\* with an empty mapping when no character of it qualifies; a character is
\* a key under its anime only if it is a directory with a non-empty variant
\* list, and no character maps to an empty list.
C3_AnimeAlwaysCharacterOnlyWithVariants ==
    (Running /\ prog = "gacha") =>
        \A m \in ManifestViews :
            /\ \A i \in 1..Len(listed) :
                  DictHas(m, listed[i].name) <=> listed[i].kind = "dir"
            /\ \A a \in 1..Len(m) : HasName(listed, m[a].k)
            /\ \A a \in 1..Len(m) : \A c \in 1..Len(m[a].v) : m[a].v[c].v # <<>>
            /\ pc = "chars" =>
                  \A c \in 1..Len(anime_listing) :
                      DictHas(DictGet(m, CurrentAnime, <<>>), anime_listing[c].name)
                          => anime_listing[c].kind = "dir"
            /\ pc = "chars" =>
                  \A k \in 1..Len(DictGet(m, CurrentAnime, <<>>)) :
                      HasName(anime_listing, DictGet(m, CurrentAnime, <<>>)[k].k)
            /\ JustScanned =>
                  (DictHas(DictGet(m, CurrentAnime, <<>>), CurrentCharacter)
                      <=> \E i \in 1..Len(char_listing) : IsImageName(char_listing[i].name))

\* written manifest with an anime mapped to nothing and an anime with a character
C3_Witness ==
    /\ prog = "gacha" /\ pc = "done" /\ Written
    /\ \E a, b \in 1..Len(out_file.data) :
          /\ out_file.data[a].v = <<>>
          /\ out_file.data[b].v # <<>>

\* C4: in a character directory only files named with an image extension
\* (case-insensitively) give a variant; a file named otherwise and a nested
\* directory, whatever its name, give none.
C4_OnlyImageFilesGiveVariants ==
    JustScanned =>
        /\ \A v \in 1..Len(CurrentVariants(manifest_data)) :
              \E i \in 1..Len(char_listing) :
                  /\ char_listing[i].kind = "file"
                  /\ IsImageName(char_listing[i].name)
                  /\ CurrentVariants(manifest_data)[v].path = VariantPath(char_listing[i].name)
        /\ \A i \in 1..Len(char_listing) :
              (char_listing[i].kind # "file" \/ ~IsImageName(char_listing[i].name))
                  => ~InSeq(Paths(CurrentVariants(manifest_data)),
                            VariantPath(char_listing[i].name))

C10_ListingOrderKept ==
    /\ (Running /\ prog = "cosmetics") =>
          \A m \in ManifestViews :
              /\ FollowsOrder(DictKeys(m.packs), Names(listed))
              /\ \A k \in 1..Len(m.packs) :
                    FollowsOrder([x \in 1..Len(m.packs[k].v.items) |-> m.packs[k].v.items[x].id],
                                 [x \in 1..Len(listed[IndexOf(Names(listed), m.packs[k].k)].list) |->
                                     NameWithoutExtension(
                                         listed[IndexOf(Names(listed), m.packs[k].k)].list[x].name)])
    /\ (Running /\ prog = "gacha") =>
          \A m \in ManifestViews :
              /\ FollowsOrder(DictKeys(m), Names(listed))
              /\ pc = "chars" =>
                    FollowsOrder(DictKeys(DictGet(m, CurrentAnime, <<>>)), Names(anime_listing))
              /\ JustScanned =>
                    FollowsOrder(Paths(CurrentVariants(m)),
                                 [x \in 1..Len(char_listing) |-> VariantPath(char_listing[x].name)])

\* written cosmetics manifest whose packs and items stand in listing order
\* where sorting by name would have swapped them
C10_Witness ==
    /\ prog = "cosmetics" /\ pc = "done" /\ Written
    /\ DictKeys(out_file.data.packs) = <<str_sakura_pack, <<"m", "y", "_", "p">> >>
    /\ \E k \in 1..Len(out_file.data.packs) :
          [x \in 1..Len(out_file.data.packs[k].v.items) |-> out_file.data.packs[k].v.items[x].id]
              = << <<"t", "h", "e", "m", "e", "-", "a">>, <<"i", "c", "o", "n", "-", "b">> >>

====
